---- MODULE Spec2Model ----
(***************************************************************************)
(* Model of the radar canvas engine of aircraft_display_with_radar.c: the  *)
(* two canvases (screen = visible, temp_screen = pending), the control     *)
(* loop of main() with its weather refresh, aircraft refresh, sweep step   *)
(* and render, and the pure helpers they call.                             *)
(*                                                                         *)
(* Numbers.  The program computes with C doubles; the model computes with  *)
(* integers in fixed point.  Angles are exact fractions of a turn, the     *)
(* cosine and sine are Taylor polynomials at scale FixScale, exact at the  *)
(* multiples of a quarter turn, and every (int) cast is a division that    *)
(* truncates toward zero (TruncDiv).  Latitude and longitude are given as  *)
(* offsets from the reference point in arc minutes, altitude in            *)
(* decimetres and velocity in decimetres per second.                       *)
(*                                                                         *)
(* Size.  The program allocates canvases of size 120 and sweeps 720        *)
(* angles; the model takes both as the bounds N and NumAngles.             *)
(***************************************************************************)
EXTENDS Integers, Sequences, FiniteSets, TLC

\* ------------------------------------------------------------------ bounds
N == 8
NumAngles == 7
MaxElapsed == 60
MaxExtraCells == 0
LatSpan == 40
LonSpan == 60
MaxBatch == 3
DrawSpan == 2
MaxSize == 13
GeoSpan == 2

\* --------------------------------------------------------- program constants
RANGE_NM == 20
fetch_interval == 10
weather_fetch_interval == 60
WEATHER_NONE == 0
WEATHER_EXTREME == 6
FixScale == 40000

\* --------------------------------------------------------------- arithmetic
\* (int)(a / b) for b > 0: C's conversion of a double to int drops the fraction.
TruncDiv(a, b) == IF a >= 0 THEN a \div b ELSE -((-a) \div b)

RECURSIVE ISqrtSearch(_, _, _)
ISqrtSearch(n, lo, hi) ==
    IF lo >= hi THEN lo
    ELSE LET mid == (lo + hi + 1) \div 2
         IN  IF mid * mid <= n THEN ISqrtSearch(n, mid, hi)
                               ELSE ISqrtSearch(n, lo, mid - 1)

\* (int)sqrt(n) for 0 <= n
ISqrt(n) == ISqrtSearch(n, 0, IF n < 46340 THEN n ELSE 46340)

\* cos x and sin x for 0 <= x <= pi/4, x and the result at scale FixScale.
CosPoly(x) ==
    LET x2 == (x * x) \div FixScale
        x4 == (x2 * x2) \div FixScale
        x6 == (x4 * x2) \div FixScale
        x8 == (x4 * x4) \div FixScale
    IN  FixScale - x2 \div 2 + x4 \div 24 - x6 \div 720 + x8 \div 40320

SinPoly(x) ==
    LET x2 == (x * x) \div FixScale
        x3 == (x * x2) \div FixScale
        x5 == (x3 * x2) \div FixScale
        x7 == (x5 * x2) \div FixScale
    IN  x - x3 \div 6 + x5 \div 120 - x7 \div 5040

\* The angle a/(8n) of a turn, 0 <= a <= n (the first octant), in radians at
\* scale FixScale: 2*pi*FixScale = 251327.
Radians(a, n) == (251327 * a) \div (8 * n)

\* cos of a/(8n) of a turn, 0 <= a < 8n, reduced to the first octant.
CosTurn(a, n) ==
    LET b == IF a > 4 * n THEN 8 * n - a ELSE a
    IN  IF b <= n THEN CosPoly(Radians(b, n))
        ELSE IF b <= 2 * n THEN SinPoly(Radians(2 * n - b, n))
        ELSE IF b <= 3 * n THEN -SinPoly(Radians(b - 2 * n, n))
        ELSE -CosPoly(Radians(4 * n - b, n))

\* cos(theta) and sin(theta) for theta = angle_step * 2 * M_PI / num_angles
Cos(angle_step, num_angles) == CosTurn(8 * angle_step, num_angles)

Sin(angle_step, num_angles) ==
    CosTurn((8 * angle_step + 6 * num_angles) % (8 * num_angles), num_angles)

\* ------------------------------------------------------------------- canvas
\* Matrix: data[y][x] is the symbol channel, weather[y][x] the intensity.
Rows(matrix) == 0 .. matrix.height - 1

Cols(matrix) == 0 .. matrix.width - 1

InBounds(matrix, x, y) ==
    x >= 0 /\ x < matrix.width /\ y >= 0 /\ y < matrix.height

CreateNarrowMatrix(n) ==
    [height |-> n,
     width |-> n,
     data |-> [i \in 0 .. n - 1 |-> [j \in 0 .. n - 1 |-> " "]],
     weather |-> [i \in 0 .. n - 1 |-> [j \in 0 .. n - 1 |-> WEATHER_NONE]]]

create_square_matrix(n) ==
    [height |-> n,
     width |-> n * 2,
     data |-> [i \in 0 .. n - 1 |-> [j \in 0 .. n * 2 - 1 |-> " "]],
     weather |-> [i \in 0 .. n - 1 |-> [j \in 0 .. n * 2 - 1 |-> WEATHER_NONE]]]

clear_matrix(matrix) ==
    [matrix EXCEPT
        !.data = [i \in Rows(matrix) |-> [j \in Cols(matrix) |-> " "]],
        !.weather = [i \in Rows(matrix) |-> [j \in Cols(matrix) |-> WEATHER_NONE]]]

\* matrix->data[y][x] = ch, with no bounds check of its own: the result is the
\* canvas's own cells, which a write outside its arrays does not reach (what
\* such a write does is undefined: see InfoFault and DrawInfo)
PutChar(matrix, x, y, ch) ==
    IF InBounds(matrix, x, y) THEN [matrix EXCEPT !.data[y][x] = ch] ELSE matrix

\* ---------------------------------------------------------- sweep compositor
center_x == (N * 2) \div 2

center_y == N \div 2

\* ceil(sqrt(n)) for 0 <= n
CeilSqrt(n) == IF ISqrt(n) * ISqrt(n) = n THEN ISqrt(n) ELSE ISqrt(n) + 1

MaxRadiusCeil == CeilSqrt(center_x * center_x + center_y * center_y) + 1

max_radius == ISqrt(center_x * center_x + center_y * center_y) + 1

\* (int)(radius * cos(theta)): v is radius * cos(theta) at scale FixScale
SweepCastFloor(v) == v \div FixScale

SweepCast(v) == TruncDiv(v, FixScale)

\* cos(theta) and sin(theta) of every angle step, at scale FixScale
CosTable == [angle \in 0 .. NumAngles - 1 |-> Cos(angle, NumAngles)]

SinTable == [angle \in 0 .. NumAngles - 1 |-> Sin(angle, NumAngles)]

SweepX(angle, radius) == center_x + SweepCast(radius * CosTable[angle])

SweepY(angle, radius) == center_y + SweepCast(radius * SinTable[angle])

SweepCopySymbolOnly(dest, source, x, y) ==
    IF InBounds(dest, x, y)
    THEN [dest EXCEPT !.data[y][x] = source.data[y][x]]
    ELSE dest

SweepCopyKeep(dest, source, x, y) ==
    IF InBounds(dest, x, y) /\ dest.data[y][x] = " " /\ dest.weather[y][x] = WEATHER_NONE
    THEN [dest EXCEPT !.data[y][x] = source.data[y][x],
                      !.weather[y][x] = source.weather[y][x]]
    ELSE dest

\* the cell of screen the write at (angle, radius) assigns, and the cell of
\* temp_screen it reads, as (row, column): screen->data[y][x] = temp_screen->data[y][x]
TargetCell(angle, radius) == << SweepY(angle, radius), SweepX(angle, radius) >>

SourceCell(angle, radius) == << SweepY(angle, radius), SweepX(angle, radius) >>

\* the body of the radius loop: one bounds-checked copy of both channels
SweepCopy(dest, source, x, y) ==
    IF InBounds(dest, x, y)
    THEN [dest EXCEPT !.data[y][x] = source.data[y][x],
                      !.weather[y][x] = source.weather[y][x]]
    ELSE dest

\* for (radius = from; radius <= max_radius; radius++)
RECURSIVE SweepRadii(_, _, _, _)
SweepRadii(dest, source, angle, radius) ==
    IF radius > max_radius THEN dest
    ELSE SweepRadii(SweepCopy(dest, source, SweepX(angle, radius), SweepY(angle, radius)),
                    source, angle, radius + 1)

SweepAngleCleared(dest, source, angle) ==
    SweepRadii(clear_matrix(dest), source, angle, 0)

SweepAngleSkipOdd(dest, source, angle) ==
    IF angle % 2 = 1 THEN dest ELSE SweepRadii(dest, source, angle, 0)

SweepAngleFromOne(dest, source, angle) == SweepRadii(dest, source, angle, 1)

\* one angle step: the radius loop from 0, on the destination as it is
SweepAngle(dest, source, angle) == SweepRadii(dest, source, angle, 0)

NextAngleShort(angle) == (angle + 1) % (NumAngles - 1)

NextAngle(angle) == (angle + 1) % NumAngles

\* -------------------------------------------------------- weather generator
\* One generated cell, from the four values rand() gave for it:
\* rx = rand() % 60, ry = rand() % 60, rr = rand() % 15, ri = rand() % 5.
WeatherCellOf(matrix, rnd) ==
    [cell_x |-> matrix.width \div 4 - 30 + rnd.rx,
     cell_y |-> matrix.height \div 2 - 30 + rnd.ry,
     radius |-> 5 + rnd.rr,
     intensity |-> 1 + rnd.ri]

\* 4 * distance^2 for distance = sqrt(dx * dx / 4.0 + dy * dy)
Dist4(cell, x, y) ==
    LET dx == x - cell.cell_x * 2
        dy == y - cell.cell_y
    IN  dx * dx + 4 * dy * dy

\* (int)(intensity * fade), fade = 1.0 - distance / radius, for distance < radius:
\* the largest k with intensity * (1 - distance / radius) >= k.
CellIntensity(q, radius, intensity) ==
    CHOOSE k \in 0 .. intensity :
        /\ q * intensity * intensity
              <= 4 * radius * radius * (intensity - k) * (intensity - k)
        /\ \/ k = intensity
           \/ q * intensity * intensity
                 > 4 * radius * radius * (intensity - k - 1) * (intensity - k - 1)

MergeWeatherOverwrite(current, cell_intensity) == cell_intensity

MergeWeatherAdd(current, cell_intensity) == current + cell_intensity

\* if (cell_intensity > matrix->weather[y][x]) matrix->weather[y][x] = cell_intensity
MergeWeather(current, cell_intensity) ==
    IF cell_intensity > current THEN cell_intensity ELSE current

\* the y/x loops for one cell
DrawWeatherCell(matrix, cell) ==
    [matrix EXCEPT !.weather =
        [y \in Rows(matrix) |-> [x \in Cols(matrix) |->
            LET q == Dist4(cell, x, y)
            IN  IF q < 4 * cell.radius * cell.radius
                THEN MergeWeather(matrix.weather[y][x],
                                  CellIntensity(q, cell.radius, cell.intensity))
                ELSE matrix.weather[y][x]]]]

\* rnds: the draws of the num_cells = 3 + rand() % 5 cells, in order
RECURSIVE DrawWeatherCells(_, _, _)
DrawWeatherCells(matrix, rnds, cell) ==
    IF cell > Len(rnds) THEN matrix
    ELSE DrawWeatherCells(DrawWeatherCell(matrix, WeatherCellOf(matrix, rnds[cell])),
                          rnds, cell + 1)

fetch_weather_data(matrix, rnds) == DrawWeatherCells(matrix, rnds, 1)

\* ------------------------------------------------------------------- text
\* A C string is a sequence of one-character strings.
Digits == <<"0", "1", "2", "3", "4", "5", "6", "7", "8", "9">>

\* printf's %d
RECURSIVE IntToChars(_)
IntToChars(n) ==
    IF n < 0 THEN <<"-">> \o IntToChars(-n)
    ELSE IF n < 10 THEN <<Digits[n + 1]>>
    ELSE IntToChars(n \div 10) \o <<Digits[(n % 10) + 1]>>

\* printf's %.1f of a distance given in thousandths: rounded to the nearest tenth
TenthsToChars(thousandths) ==
    LET t == (thousandths + 50) \div 100
    IN  IntToChars(t \div 10) \o <<".">> \o <<Digits[(t % 10) + 1]>>

\* printf's %.8s
Prefix(chars, n) == IF Len(chars) <= n THEN chars ELSE SubSeq(chars, 1, n)

\* while (len > 0 && callsign[len-1] == ' ') callsign[--len] = '\0'
RECURSIVE TrimTrailing(_)
TrimTrailing(chars) ==
    IF Len(chars) > 0 /\ chars[Len(chars)] = " "
    THEN TrimTrailing(SubSeq(chars, 1, Len(chars) - 1))
    ELSE chars

\* for (i = 0; buffer[i] != '\0' && (tab_offset + i) < matrix->width; i++)
\*     matrix->data[row][tab_offset + i] = buffer[i];      (i counted from 1 here)
RECURSIVE WriteRow(_, _, _, _, _)
WriteRow(matrix, row, tab_offset, buffer, i) ==
    IF i <= Len(buffer) /\ tab_offset + (i - 1) < matrix.width
    THEN WriteRow(PutChar(matrix, tab_offset + (i - 1), row, buffer[i]),
                  row, tab_offset, buffer, i + 1)
    ELSE matrix

\* ------------------------------------------------------------ canvas drawing
display_symbol(matrix, x, y) ==
    LET scaled_x == x * 2
    IN  IF InBounds(matrix, scaled_x, y) THEN PutChar(matrix, scaled_x, y, "X")
        ELSE matrix

display_slash(matrix, x, y) ==
    LET scaled_x == (x + 1) * 2
        slash_y == y - 1
    IN  IF InBounds(matrix, scaled_x, slash_y)
        THEN PutChar(matrix, scaled_x, slash_y, "/")
        ELSE matrix

\* the four buffers of display_info, in the order they are written
InfoLines(callsign, altitude_ft, speed_kts, distance_nm) ==
    << Prefix(callsign, 8),
       <<"A", "l", "t", ":">> \o IntToChars(altitude_ft) \o <<"f", "t">>,
       <<"S", "p", "d", ":">> \o IntToChars(speed_kts) \o <<"k", "t">>,
       <<"D", "s", "t", ":">> \o TenthsToChars(distance_nm) \o <<"n", "m">> >>

\* Some write of display_info falls outside the arrays of the canvas: a row
\* text_y + 1 .. text_y + 3 at or below the bottom, or a column left of 0.
\* (Only text_y itself and the right edge are tested by the code.)
InfoFault(matrix, x, y, lines) ==
    LET slash_x == (x + 1) * 2
        text_y == y - 5
    IN  /\ text_y >= 0 /\ text_y < matrix.height
        /\ \E k \in 1 .. 4 : \E i \in 1 .. Len(lines[k]) :
              /\ slash_x + (i - 1) < matrix.width
              /\ ~InBounds(matrix, slash_x + (i - 1), text_y + (k - 1))

WriteRowChecked(matrix, row, tab_offset, buffer) ==
    IF row >= 0 /\ row < matrix.height THEN WriteRow(matrix, row, tab_offset, buffer, 1)
    ELSE matrix

DisplayInfoPerRow(matrix, x, y, callsign, altitude_ft, speed_kts, distance_nm) ==
    LET slash_x == (x + 1) * 2
        text_y == y - 5
        lines == InfoLines(callsign, altitude_ft, speed_kts, distance_nm)
    IN  WriteRowChecked(
          WriteRowChecked(
            WriteRowChecked(
              WriteRowChecked(matrix, text_y, slash_x, lines[1]),
              text_y + 1, slash_x, lines[2]),
            text_y + 2, slash_x, lines[3]),
          text_y + 3, slash_x, lines[4])

\* The result is the canvas after the writes that fall inside it.
display_info(matrix, x, y, callsign, altitude_ft, speed_kts, distance_nm) ==
    LET slash_x == (x + 1) * 2
        text_y == y - 5
        lines == InfoLines(callsign, altitude_ft, speed_kts, distance_nm)
    IN  IF text_y >= 0 /\ text_y < matrix.height
        THEN WriteRow(
               WriteRow(
                 WriteRow(
                   WriteRow(matrix, text_y, slash_x, lines[1], 1),
                   text_y + 1, slash_x, lines[2], 1),
                 text_y + 2, slash_x, lines[3], 1),
               text_y + 3, slash_x, lines[4], 1)
        ELSE matrix

\* ------------------------------------------------------------ geo projector
\* lat and lon are offsets from (LSZH_LAT, LSZH_LON) in arc minutes, so
\* y_nm = lat and x_nm = lon * cos(LSZH_LAT), cos(47.458056 deg) = 0.67613.
ClampRowTop(y) == IF y < 5 THEN 5 ELSE y

ClampRow(y) == IF y < 6 THEN 6 ELSE y

LatLonFullWidth(lat, lon, width, height) ==
    LET x0 == (width \div 2) + TruncDiv(lon * 67613 * (width \div 2), RANGE_NM * 100000)
        y0 == (height \div 2) - TruncDiv(lat * (height \div 2), RANGE_NM)
        x1 == IF x0 < 0 THEN 0 ELSE x0
        x2 == IF x1 >= width \div 2 THEN (width \div 2) - 1 ELSE x1
        y1 == ClampRow(y0)
        y2 == IF y1 >= height THEN height - 1 ELSE y1
    IN  [screen_x |-> x2, screen_y |-> y2]

latlon_to_screen(lat, lon, width, height) ==
    LET x0 == (width \div 4) + TruncDiv(lon * 67613 * (width \div 4), RANGE_NM * 100000)
        y0 == (height \div 2) - TruncDiv(lat * (height \div 2), RANGE_NM)
        x1 == IF x0 < 0 THEN 0 ELSE x0
        x2 == IF x1 >= width \div 2 THEN (width \div 2) - 1 ELSE x1
        y1 == ClampRow(y0)
        y2 == IF y1 >= height THEN height - 1 ELSE y1
    IN  [screen_x |-> x2, screen_y |-> y2]

\* calculate_distance(LSZH_LAT, LSZH_LON, lat, lon), in thousandths of a
\* nautical mile.  Within a degree of the reference point the haversine
\* formula is the flat distance sqrt(dLat^2 + cos(lat1) * cos(lat2) * dLon^2)
\* on the sphere of radius EARTH_RADIUS_NM, where one arc minute is 1.000665 nm;
\* cos(lat2) = cos(LSZH_LAT) - sin(LSZH_LAT) * dLat, at scale 10000.
calculate_distance(lat, lon) ==
    LET cos2 == 6761 - TruncDiv(lat * 2143, 1000)
        cc == (6761 * cos2) \div 10000
        y == lat * 1000
        d == ISqrt(lon * lon * cc * 100 + y * y)
    IN  d + (d * 665) \div 1000000

\* ------------------------------------------------------------ aircraft source
\* A JSON value of the response.
JNull == [type |-> "null", value |-> 0]

JNum(v) == [type |-> "number", value |-> v]

JStr(chars) == [type |-> "string", value |-> chars]

json_is_number(j) == j.type = "number"

json_is_string(j) == j.type = "string"

\* if (ac->distance <= RANGE_NM), distance in thousandths
InRange(distance) == distance <= RANGE_NM * 1000

\* One state vector of the "states" array: fills slot *count of the list and
\* keeps it (count + 1) only if the aircraft is within range.
DecodeState(out, state) ==
    IF \/ ~json_is_string(state.callsign_json) \/ ~json_is_number(state.lat_json)
       \/ ~json_is_number(state.lon_json) \/ ~json_is_number(state.altitude_json)
    THEN out
    ELSE LET ac == [callsign |-> TrimTrailing(Prefix(state.callsign_json.value, 15)),
                    latitude |-> state.lat_json.value,
                    longitude |-> state.lon_json.value,
                    altitude |-> state.altitude_json.value,
                    velocity |-> IF json_is_number(state.velocity_json)
                                 THEN state.velocity_json.value ELSE 0,
                    squawk |-> 0,
                    distance |-> calculate_distance(state.lat_json.value,
                                                    state.lon_json.value)]
         IN  [list |-> SubSeq(out.list, 1, out.count) \o <<ac>>,
              count |-> IF InRange(ac.distance) THEN out.count + 1 ELSE out.count]

RECURSIVE DecodeStatesAbort(_, _, _)
DecodeStatesAbort(out, states, i) ==
    IF i > Len(states) THEN out
    ELSE IF DecodeState(out, states[i]) = out THEN out
    ELSE DecodeStatesAbort(DecodeState(out, states[i]), states, i + 1)

RECURSIVE DecodeStates(_, _, _)
DecodeStates(out, states, i) ==
    IF i > Len(states) THEN out
    ELSE DecodeStates(DecodeState(out, states[i]), states, i + 1)

\* response: what the HTTP request and the JSON parse gave.  ret = 0 with the
\* list and count on success, ret = -1 on any failure.
fetch_aircraft_data(response) ==
    IF response.kind # "ok"
    THEN [ret |-> -1, list |-> <<>>, count |-> 0]
    ELSE LET out == DecodeStates([list |-> <<>>, count |-> 0], response.states, 1)
         IN  [ret |-> 0, list |-> out.list, count |-> out.count]

\* ---------------------------------------------- aircraft refresh (main loop)
TitleChars(aircraft_count) ==
    <<"L", "S", "Z", "H", " ", "-", " ", "A", "i", "r", "c", "r", "a", "f", "t", ":", " ">>
      \o IntToChars(aircraft_count) 
      \o <<" ", "|", " ", "W", "e", "a", "t", "h", "e", "r", ":", " ", "M", "e", "t", "e", "o", "S", "w", "i", "s", "s", " ", "R", "a", "d", "a", "r", " ", "(", "S", "i", "m", "u", "l", "a", "t", "e", "d", ")">>

altitude_ft_of(ac) == TruncDiv(ac.altitude * 328084, 1000000)

speed_kts_of(ac) == TruncDiv(ac.velocity * 194384, 1000000)

FilteredOutBoth(altitude_ft, speed_kts) == altitude_ft <= 1800 /\ speed_kts <= 60

\* if (altitude_ft <= 1800 || speed_kts <= 60) continue;
FilteredOut(altitude_ft, speed_kts) == altitude_ft <= 1800 \/ speed_kts <= 60

\* the body of the "Display each aircraft" loop
DisplayAircraft(matrix, ac) ==
    LET p == latlon_to_screen(ac.latitude, ac.longitude, matrix.width, matrix.height)
        altitude_ft == altitude_ft_of(ac)
        speed_kts == speed_kts_of(ac)
    IN  IF FilteredOut(altitude_ft, speed_kts) THEN matrix
        ELSE display_info(
               display_slash(
                 display_symbol(matrix, p.screen_x, p.screen_y),
                 p.screen_x, p.screen_y),
               p.screen_x, p.screen_y, ac.callsign, altitude_ft, speed_kts, ac.distance)

RECURSIVE DisplayAll(_, _, _, _)
DisplayAll(matrix, list, count, i) ==
    IF i > count THEN matrix
    ELSE DisplayAll(DisplayAircraft(matrix, list[i]), list, count, i + 1)

KeepSymbols(matrix) == matrix.data

\* "Clear only the aircraft data, keep weather"
BlankSymbols(matrix) == [i \in Rows(matrix) |-> [j \in Cols(matrix) |-> " "]]

DrawCenterMarker(matrix) ==
    LET center_x_marker == matrix.width \div 4
        center_y_marker == matrix.height \div 2
    IN  IF /\ center_y_marker >= 0 /\ center_y_marker < matrix.height
           /\ center_x_marker * 2 < matrix.width
        THEN PutChar(matrix, center_x_marker * 2, center_y_marker, "+")
        ELSE matrix

RedrawCleared(matrix, list, count) ==
    LET blank == clear_matrix(matrix)
        titled == WriteRow(blank, 0, 0, TitleChars(count), 1)
        marked == DrawCenterMarker(titled)
    IN  DisplayAll(marked, list, count, 1)

\* the branch taken when fetch_aircraft_data returned 0
RedrawSymbols(matrix, list, count) ==
    LET blank == [matrix EXCEPT !.data = BlankSymbols(matrix)]
        titled == WriteRow(blank, 0, 0, TitleChars(count), 1)
        marked == DrawCenterMarker(titled)
    IN  DisplayAll(marked, list, count, 1)

RedrawAlways(matrix, r) == RedrawSymbols(matrix, r.list, r.count)

\* if (fetch_aircraft_data(&aircraft_list, &aircraft_count) == 0) { ... }
AfterFetch(matrix, r) ==
    IF r.ret = 0 THEN RedrawSymbols(matrix, r.list, r.count) ELSE matrix

\* ------------------------------------------------------------ frame renderer
get_weather_color(intensity) ==
    CASE intensity = 1 -> "COLOR_BLUE"
      [] intensity = 2 -> "COLOR_CYAN"
      [] intensity = 3 -> "COLOR_GREEN"
      [] intensity = 4 -> "COLOR_YELLOW"
      [] intensity = 5 -> "COLOR_ORANGE"
      [] intensity = 6 -> "COLOR_RED"
      [] OTHER -> ""

\* the shade and block characters are named by their code points
get_weather_char(intensity) ==
    CASE intensity = 1 -> "."
      [] intensity = 2 -> ":"
      [] intensity = 3 -> "U+2591"
      [] intensity = 4 -> "U+2592"
      [] intensity = 5 -> "U+2593"
      [] intensity = 6 -> "U+2588"
      [] OTHER -> " "

PrintCellWeatherFirst(matrix, i, j) ==
    IF matrix.weather[i][j] # WEATHER_NONE
    THEN [color |-> get_weather_color(matrix.weather[i][j]),
          text |-> get_weather_char(matrix.weather[i][j])]
    ELSE IF matrix.data[i][j] # " "
    THEN [color |-> "COLOR_RESET", text |-> matrix.data[i][j]]
    ELSE [color |-> "", text |-> " "]

\* what the print loop writes for cell [i][j]
PrintCell(matrix, i, j) ==
    IF matrix.data[i][j] # " "
    THEN [color |-> "COLOR_RESET", text |-> matrix.data[i][j]]
    ELSE IF matrix.weather[i][j] # WEATHER_NONE
    THEN [color |-> get_weather_color(matrix.weather[i][j]),
          text |-> get_weather_char(matrix.weather[i][j])]
    ELSE [color |-> "", text |-> " "]

PrintFrame(matrix) ==
    [i \in Rows(matrix) |-> [j \in Cols(matrix) |-> PrintCell(matrix, i, j)]]

\* ------------------------------------------------------------------ inputs
\* The clock at startup: time(NULL) is seconds since 1970, far above both
\* refresh intervals; and the seconds the clock may advance between two reads.
StartTime == 1000

Elapsed == {0, 30}

\* rand() draws of one weather cell
WeatherRnd == { [rx |-> 30, ry |-> 30, rr |-> 1, ri |-> 4],
                [rx |-> 29, ry |-> 31, rr |-> 0, ri |-> 2] }

\* the draws of one generation: num_cells = 3 + rand() % 5 cells
WeatherDraws ==
    UNION { [1 .. k -> WeatherRnd] : k \in 3 .. 3 + MaxExtraCells }

Chars(s) ==
    CASE s = "SWR123" -> <<"S", "W", "R", "1", "2", "3", " ", " ">>
      [] s = "EZY45AB" -> <<"E", "Z", "Y", "4", "5", "A", "B", " ">>
      [] s = "DLH9" -> <<"D", "L", "H", "9", " ", " ", " ", " ">>
      [] OTHER -> <<"H", "B", "Z", "R", "F">>

\* one entry of the "states" array: [1] callsign, [5] lon, [6] lat,
\* [7] altitude, [9] velocity
State(cs, lat, lon, alt, vel) ==
    [callsign_json |-> cs, lat_json |-> lat, lon_json |-> lon,
     altitude_json |-> alt, velocity_json |-> vel]

StCruise == State(JStr(Chars("SWR123")), JNum(-10), JNum(0), JNum(6000), JNum(1000))

StEdge == State(JStr(Chars("EZY45AB")), JNum(5), JNum(10), JNum(5487), JNum(314))

StSlow == State(JStr(Chars("DLH9")), JNum(-5), JNum(-10), JNum(6000), JNum(300))

StLow == State(JStr(Chars("DLH9")), JNum(-12), JNum(8), JNum(3000), JNum(900))

StFar == State(JStr(Chars("DLH9")), JNum(20), JNum(0), JNum(6000), JNum(1000))

StNoLat == State(JStr(Chars("HBZRF")), JNull, JNum(3), JNum(6000), JNum(1000))

StNoVel == State(JStr(Chars("HBZRF")), JNum(3), JNum(3), JNum(6000), JNull)

StWest == State(JStr(Chars("EZY45AB")), JNum(-15), JNum(-15), JNum(5490), JNum(320))

StNoCallsign == State(JNull, JNum(2), JNum(2), JNum(6000), JNum(1000))

StNoLon == State(JStr(Chars("HBZRF")), JNum(2), JNull, JNum(6000), JNum(1000))

StNoAlt == State(JStr(Chars("HBZRF")), JNum(2), JNum(2), JNull, JNum(1000))

Failures == { [kind |-> "curl_init_failed", states |-> <<>>],
              [kind |-> "network_error", states |-> <<>>],
              [kind |-> "parse_error", states |-> <<>>],
              [kind |-> "no_states", states |-> <<>>] }

Batches == { [kind |-> "ok", states |-> <<StCruise, StEdge, StSlow>>],
             [kind |-> "ok", states |-> <<StNoLat, StFar, StWest, StLow, StNoVel>>] }

\* ------------------------------------------------------------------- state
VARIABLES
    screen,             \* the visible canvas
    temp_screen,        \* the pending canvas
    current_angle,      \* index of the next angle to sweep
    current_time,       \* the clock as last read at the top of the loop
    last_fetch_time,    \* clock of the last aircraft fetch attempt
    last_weather_fetch, \* clock of the last weather refresh
    pc,                 \* position in the body of while(1)
    fetched,            \* what fetch_aircraft_data returned in this iteration
    swept,              \* per cell: what pending held when the sweep last hit it
    steps,              \* sweep steps done so far, counted up to NumAngles
    geo,                \* one call of latlon_to_screen: its arguments and result
    decode,             \* one call of fetch_aircraft_data: the response and the result
    draw,               \* one call of a drawing function: its arguments and outcome
    frame,              \* the frame last printed: per cell its colour and its text
    quiet               \* sweep steps since pending last changed, up to NumAngles

vars == << screen, temp_screen, current_angle, current_time, last_fetch_time,
           last_weather_fetch, pc, fetched, swept, steps, geo, decode, draw, frame, quiet >>

NoFetch == [ret |-> 1, list |-> <<>>, count |-> 0]

Cells == (0 .. N - 1) \X (0 .. N * 2 - 1)

NeverSwept == [hit |-> FALSE, data |-> " ", weather |-> WEATHER_NONE]

\* the cells (y, x) the radius loop of one angle writes
RayTable ==
    [angle \in 0 .. NumAngles - 1 |->
        { c \in Cells : \E radius \in 0 .. max_radius :
              c[1] = SweepY(angle, radius) /\ c[2] = SweepX(angle, radius) }]

RayCells(angle) == RayTable[angle]

NoCall == [called |-> FALSE, lat |-> 0, lon |-> 0, screen_x |-> 0, screen_y |-> 0]

NoDecode == [called |-> FALSE, response |-> [kind |-> "none", states |-> <<>>],
             ret |-> 1, list |-> <<>>, count |-> 0]

\* before the first frame the terminal shows no cell of the canvas
NoFrame == [i \in 0 .. N - 1 |-> [j \in 0 .. N * 2 - 1 |-> [color |-> "", text |-> " "]]]

NoDraw == [called |-> FALSE, op |-> "none", x |-> 0, y |-> 0, fault |-> FALSE]

Init ==
    /\ screen = clear_matrix(create_square_matrix(N))
    /\ temp_screen = clear_matrix(create_square_matrix(N))
    /\ current_angle = 0
    /\ current_time = StartTime
    /\ last_fetch_time = 0
    /\ last_weather_fetch = 0
    /\ pc = "time"
    /\ fetched = NoFetch
    /\ swept = [c \in Cells |-> NeverSwept]
    /\ steps = 0
    /\ geo = NoCall
    /\ decode = NoDecode
    /\ draw = NoDraw
    /\ frame = NoFrame
    /\ quiet = 0

WeatherDueStrict == current_time - last_weather_fetch > weather_fetch_interval

WeatherDue == current_time - last_weather_fetch >= weather_fetch_interval

AircraftDue == current_time - last_fetch_time >= fetch_interval

\* time_t current_time = time(NULL);
ReadClock ==
    /\ pc = "time"
    /\ \E dt \in Elapsed :
          /\ current_time + dt <= StartTime + MaxElapsed
          /\ current_time' = current_time + dt
    /\ fetched' = NoFetch
    /\ pc' = "weather"
    /\ UNCHANGED << screen, temp_screen, current_angle, last_fetch_time,
                    last_weather_fetch, swept, steps, geo, decode, draw, frame, quiet >>

WeatherRefresh ==
    /\ pc = "weather"
    /\ WeatherDue
    /\ \E rnds \in WeatherDraws : temp_screen' = fetch_weather_data(temp_screen, rnds)
    /\ quiet' = IF temp_screen' = temp_screen THEN quiet ELSE 0
    /\ last_weather_fetch' = current_time
    /\ pc' = "aircraft"
    /\ UNCHANGED << screen, current_angle, current_time, last_fetch_time,
                    fetched, swept, steps, geo, decode, draw, frame >>

WeatherSkip ==
    /\ pc = "weather"
    /\ ~WeatherDue
    /\ pc' = "aircraft"
    /\ UNCHANGED << screen, temp_screen, current_angle, current_time,
                    last_fetch_time, last_weather_fetch, fetched, swept, steps, geo, decode, draw, frame, quiet >>

\* one fetch attempt: the response is whatever the network and the parser gave
AircraftRefresh ==
    /\ pc = "aircraft"
    /\ AircraftDue
    /\ \E response \in Batches \cup Failures :
          LET r == fetch_aircraft_data(response)
          IN  /\ fetched' = r
              /\ temp_screen' = AfterFetch(temp_screen, r)
    /\ quiet' = IF temp_screen' = temp_screen THEN quiet ELSE 0
    /\ last_fetch_time' = current_time
    /\ pc' = "sweep"
    /\ UNCHANGED << screen, current_angle, current_time, last_weather_fetch,
                    swept, steps, geo, decode, draw, frame >>

AircraftSkip ==
    /\ pc = "aircraft"
    /\ ~AircraftDue
    /\ pc' = "sweep"
    /\ UNCHANGED << screen, temp_screen, current_angle, current_time,
                    last_fetch_time, last_weather_fetch, fetched, swept, steps, geo, decode, draw, frame, quiet >>

\* "Perform one sonar sweep step"
SweepStep ==
    /\ pc = "sweep"
    /\ screen' = SweepAngle(screen, temp_screen, current_angle)
    /\ swept' = [c \in Cells |->
                    IF c \in RayCells(current_angle)
                    THEN [hit |-> TRUE, data |-> temp_screen.data[c[1]][c[2]],
                          weather |-> temp_screen.weather[c[1]][c[2]]]
                    ELSE swept[c]]
    /\ steps' = IF steps < NumAngles THEN steps + 1 ELSE steps
    /\ quiet' = IF quiet < NumAngles THEN quiet + 1 ELSE quiet
    /\ pc' = "render"
    /\ UNCHANGED << temp_screen, current_angle, current_time, last_fetch_time,
                    last_weather_fetch, fetched, geo, decode, draw, frame >>

\* the frame is printed; current_angle = (current_angle + 1) % num_angles
Render ==
    /\ pc = "render"
    /\ frame' = PrintFrame(screen)
    /\ current_angle' = NextAngle(current_angle)
    /\ pc' = "time"
    /\ UNCHANGED << screen, temp_screen, current_time, last_fetch_time,
                    last_weather_fetch, fetched, swept, steps, geo, decode, draw,
                    quiet >>

Next ==
    \/ ReadClock
    \/ WeatherRefresh
    \/ WeatherSkip
    \/ AircraftRefresh
    \/ AircraftSkip
    \/ SweepStep
    \/ Render

Spec == Init /\ [][Next]_vars

\* the statement after position p of the loop body
NextPc(p) ==
    CASE p = "time" -> "weather"
      [] p = "weather" -> "aircraft"
      [] p = "aircraft" -> "sweep"
      [] p = "sweep" -> "render"
      [] OTHER -> "time"

\* Every statement of the loop body returns (the blocking fetch is bounded by
\* its 10 s timeout), so the position in the loop keeps advancing.
LoopAdvance == pc' = NextPc(pc)

FairSpec == Spec /\ WF_pc(LoopAdvance)

\* ------------------------------------------- the projection, called on its own
\* latlon_to_screen applied to one position, for the canvas of the program.
ProjInit ==
    /\ screen = clear_matrix(create_square_matrix(N))
    /\ temp_screen = clear_matrix(create_square_matrix(N))
    /\ current_angle = 0
    /\ current_time = StartTime
    /\ last_fetch_time = 0
    /\ last_weather_fetch = 0
    /\ pc = "geo"
    /\ fetched = NoFetch
    /\ swept = [c \in Cells |-> NeverSwept]
    /\ steps = 0
    /\ \E lat \in -LatSpan .. LatSpan, lon \in -LonSpan .. LonSpan :
          geo = [NoCall EXCEPT !.lat = lat, !.lon = lon]
    /\ decode = NoDecode
    /\ draw = NoDraw
    /\ frame = NoFrame
    /\ quiet = 0

Project ==
    /\ pc = "geo"
    /\ ~geo.called
    /\ LET p == latlon_to_screen(geo.lat, geo.lon, temp_screen.width, temp_screen.height)
       IN  geo' = [geo EXCEPT !.called = TRUE,
                              !.screen_x = p.screen_x, !.screen_y = p.screen_y]
    /\ UNCHANGED << screen, temp_screen, current_angle, current_time,
                    last_fetch_time, last_weather_fetch, pc, fetched, swept, steps,
                    decode, draw, frame, quiet >>

ProjNext == Project

SpecProj == ProjInit /\ [][ProjNext]_vars

\* ------------------------------------------- the decoder, called on its own
\* fetch_aircraft_data applied to one response: a failure, or a "states" array
\* of at most MaxBatch entries.
SampleStates == { StCruise, StEdge, StFar, StNoLat, StNoVel, StWest,
                  StNoCallsign, StNoLon, StNoAlt }

Responses ==
    Failures \cup
    { [kind |-> "ok", states |-> states] :
         states \in UNION { [1 .. k -> SampleStates] : k \in 0 .. MaxBatch } }

DecodeInit ==
    /\ screen = clear_matrix(create_square_matrix(N))
    /\ temp_screen = clear_matrix(create_square_matrix(N))
    /\ current_angle = 0
    /\ current_time = StartTime
    /\ last_fetch_time = 0
    /\ last_weather_fetch = 0
    /\ pc = "decode"
    /\ fetched = NoFetch
    /\ swept = [c \in Cells |-> NeverSwept]
    /\ steps = 0
    /\ geo = NoCall
    /\ \E response \in Responses : decode = [NoDecode EXCEPT !.response = response]
    /\ draw = NoDraw
    /\ frame = NoFrame
    /\ quiet = 0

Decode ==
    /\ pc = "decode"
    /\ ~decode.called
    /\ LET r == fetch_aircraft_data(decode.response)
       IN  decode' = [decode EXCEPT !.called = TRUE, !.ret = r.ret,
                                    !.list = r.list, !.count = r.count]
    /\ UNCHANGED << screen, temp_screen, current_angle, current_time,
                    last_fetch_time, last_weather_fetch, pc, fetched, swept, steps,
                    geo, draw, frame, quiet >>

DecodeNext == Decode

SpecDecode == DecodeInit /\ [][DecodeNext]_vars

\* ------------------------------- the drawing functions, called on their own
\* display_symbol, display_slash and display_info applied once to a canvas
\* holding the title and the centre marker, at an anchor in or around the grid.
DrawCanvas == RedrawSymbols(clear_matrix(create_square_matrix(N)), <<>>, 0)

DrawLabel == [callsign |-> Chars("SWR123"), altitude_ft |-> 19685,
              speed_kts |-> 194, distance |-> 10006]

DrawLines ==
    InfoLines(DrawLabel.callsign, DrawLabel.altitude_ft, DrawLabel.speed_kts,
              DrawLabel.distance)

DrawInit ==
    /\ screen = clear_matrix(create_square_matrix(N))
    /\ temp_screen = DrawCanvas
    /\ current_angle = 0
    /\ current_time = StartTime
    /\ last_fetch_time = 0
    /\ last_weather_fetch = 0
    /\ pc = "draw"
    /\ fetched = NoFetch
    /\ swept = [c \in Cells |-> NeverSwept]
    /\ steps = 0
    /\ geo = NoCall
    /\ decode = NoDecode
    /\ \E x \in -DrawSpan .. N + DrawSpan, y \in -DrawSpan .. N + 5 + DrawSpan :
          draw = [NoDraw EXCEPT !.x = x, !.y = y]
    /\ frame = NoFrame
    /\ quiet = 0

DrawSymbol ==
    /\ pc = "draw"
    /\ ~draw.called
    /\ temp_screen' = display_symbol(temp_screen, draw.x, draw.y)
    /\ draw' = [draw EXCEPT !.called = TRUE, !.op = "symbol"]
    /\ UNCHANGED << screen, current_angle, current_time, last_fetch_time,
                    last_weather_fetch, pc, fetched, swept, steps, geo, decode,
                    frame, quiet >>

DrawSlash ==
    /\ pc = "draw"
    /\ ~draw.called
    /\ temp_screen' = display_slash(temp_screen, draw.x, draw.y)
    /\ draw' = [draw EXCEPT !.called = TRUE, !.op = "slash"]
    /\ UNCHANGED << screen, current_angle, current_time, last_fetch_time,
                    last_weather_fetch, pc, fetched, swept, steps, geo, decode,
                    frame, quiet >>

\* A write outside the arrays of the canvas is undefined behaviour: the
\* character lands in memory that is not the canvas, or the process is
\* stopped, or the character lands in some cell of the canvas (the rows are
\* separate heap blocks next to one another).
DrawInfo ==
    /\ pc = "draw"
    /\ ~draw.called
    /\ LET done == display_info(temp_screen, draw.x, draw.y, DrawLabel.callsign,
                                DrawLabel.altitude_ft, DrawLabel.speed_kts,
                                DrawLabel.distance)
           fault == InfoFault(temp_screen, draw.x, draw.y, DrawLines)
       IN  /\ draw' = [draw EXCEPT !.called = TRUE, !.op = "info", !.fault = fault]
           /\ IF ~fault
              THEN temp_screen' = done /\ pc' = pc
              ELSE \/ temp_screen' = done /\ pc' = pc
                   \/ temp_screen' = done /\ pc' = "crashed"
                   \/ /\ \E c \in Cells :
                            temp_screen' = PutChar(done, c[2], c[1], DrawLines[1][1])
                      /\ pc' = pc
    /\ UNCHANGED << screen, current_angle, current_time, last_fetch_time,
                    last_weather_fetch, fetched, swept, steps, geo, decode, frame, quiet >>

DrawNext ==
    \/ DrawSymbol
    \/ DrawSlash
    \/ DrawInfo

SpecDraw == DrawInit /\ [][DrawNext]_vars

\* ------------------------------------- canvases of any size, and their centre
\* create_square_matrix(n) and clear_matrix for a size n, then latlon_to_screen
\* for a position at or near the reference point, then the centre marker.
NoMatrix == [height |-> 0, width |-> 0, data |-> <<>>, weather |-> <<>>]

AllocInit ==
    /\ screen = NoMatrix
    /\ temp_screen = NoMatrix
    /\ current_angle = 0
    /\ current_time = StartTime
    /\ last_fetch_time = 0
    /\ last_weather_fetch = 0
    /\ pc = "alloc"
    /\ fetched = NoFetch
    /\ swept = [c \in Cells |-> NeverSwept]
    /\ steps = 0
    /\ \E lat \in -GeoSpan .. GeoSpan, lon \in -GeoSpan .. GeoSpan :
          geo = [NoCall EXCEPT !.lat = lat, !.lon = lon]
    /\ decode = NoDecode
    /\ draw = NoDraw
    /\ frame = NoFrame
    /\ quiet = 0

Allocate ==
    /\ pc = "alloc"
    /\ \E n \in 1 .. MaxSize :
          /\ screen' = clear_matrix(create_square_matrix(n))
          /\ temp_screen' = clear_matrix(create_square_matrix(n))
    /\ pc' = "geo"
    /\ UNCHANGED << current_angle, current_time, last_fetch_time, last_weather_fetch,
                    fetched, swept, steps, geo, decode, draw, frame, quiet >>

MarkCenter ==
    /\ pc = "geo"
    /\ geo.called
    /\ temp_screen' = DrawCenterMarker(temp_screen)
    /\ pc' = "marked"
    /\ UNCHANGED << screen, current_angle, current_time, last_fetch_time,
                    last_weather_fetch, fetched, swept, steps, geo, decode, draw,
                    frame, quiet >>

AllocNext ==
    \/ Allocate
    \/ Project
    \/ MarkCenter

SpecAlloc == AllocInit /\ [][AllocNext]_vars

TypeOK ==
    /\ pc \in {"time", "weather", "aircraft", "sweep", "render", "geo", "decode", "draw",
              "crashed", "alloc", "marked"}
    /\ current_angle \in 0 .. NumAngles - 1
    /\ steps \in 0 .. NumAngles
    /\ quiet \in 0 .. NumAngles

\* ------------------------------------------------------------------ claims
CellOf(matrix, c) == << matrix.data[c[1]][c[2]], matrix.weather[c[1]][c[2]] >>

\* q is v / FixScale with the fraction dropped, toward zero
IsTruncation(v, q) ==
    /\ q * v >= 0
    /\ (IF q >= 0 THEN q ELSE -q) * FixScale <= (IF v >= 0 THEN v ELSE -v)
    /\ (IF v >= 0 THEN v ELSE -v) < ((IF q >= 0 THEN q ELSE -q) + 1) * FixScale

\* C1: a sweep step at angle index i copies, for every radius in 0..maxRadius
\* whose cell (centerX + trunc(r cos theta), centerY + trunc(r sin theta)) is in
\* bounds, the symbol and the weather intensity of that cell from pending to
\* visible; trunc drops the fraction toward zero.
C1_SweepCopiesRay ==
    [][ (pc = "sweep" /\ pc' = "render") =>
          \A radius \in 0 .. max_radius :
             \A dx, dy \in -max_radius .. max_radius :
                ( /\ IsTruncation(radius * CosTable[current_angle], dx)
                  /\ IsTruncation(radius * SinTable[current_angle], dy)
                  /\ InBounds(screen, center_x + dx, center_y + dy) )
                => CellOf(screen', << center_y + dy, center_x + dx >>)
                     = CellOf(temp_screen, << center_y + dy, center_x + dx >>) ]_vars

\* a sweep step has just copied, left of and above the centre (where both
\* products are negative), a cell holding a symbol over weather
C1_Witness ==
    /\ pc = "render"
    /\ \E c \in RayCells(current_angle) :
          /\ c[1] < center_y /\ c[2] < center_x
          /\ screen.data[c[1]][c[2]] # " "
          /\ screen.weather[c[1]][c[2]] > WEATHER_NONE

\* the cells some (angle, radius) pair hits
HitCells == UNION { RayCells(angle) : angle \in 0 .. NumAngles - 1 }

\* C2: once numAngles sweep steps have run, every cell hit by some (angle,
\* radius) pair holds in visible, in both channels, what pending held in that
\* cell when the cell was last swept, whatever refreshes came in between.
C2_FullRotation ==
    steps = NumAngles =>
       \A c \in HitCells :
          /\ swept[c].hit
          /\ CellOf(screen, c) = << swept[c].data, swept[c].weather >>

\* after a full rotation a hit cell shows its last swept value, which a later
\* refresh of pending has already replaced
C2_Witness ==
    /\ steps = NumAngles
    /\ \E c \in HitCells :
          /\ screen.data[c[1]][c[2]] # temp_screen.data[c[1]][c[2]]
          /\ screen.weather[c[1]][c[2]] # temp_screen.weather[c[1]][c[2]]
          /\ screen.data[c[1]][c[2]] # " "

\* C3: visible is changed by the sweep step only, and only at the cells of the
\* current ray: the weather refresh and the aircraft refresh (failed or not)
\* leave every cell of visible unchanged, and a sweep step leaves every cell
\* the current angle does not hit unchanged, so visible is never cleared.
C3_VisibleFrame ==
    [][ /\ (pc # "sweep") => (screen' = screen)
        /\ (pc = "sweep") =>
              /\ screen'.height = screen.height /\ screen'.width = screen.width
              /\ \A c \in Cells \ RayCells(current_angle) :
                    CellOf(screen', c) = CellOf(screen, c) ]_vars

\* a sweep step has run after a refresh, and a cell off the ray still shows
\* the older content it was given by an earlier sweep
C3_Witness ==
    /\ pc = "render"
    /\ \E c \in Cells \ RayCells(current_angle) :
          /\ swept[c].hit
          /\ screen.data[c[1]][c[2]] # " "
          /\ CellOf(screen, c) # CellOf(temp_screen, c)

\* C4: every iteration of the loop runs the sweep step once, whether a refresh
\* ran or not and whether the fetch failed or not; the angle index then becomes
\* (i + 1) mod numAngles, so the angles are swept in ascending order, each of
\* them again and again, forever.
C4_SweepEveryIteration ==
    /\ [][ /\ pc' # pc => pc' = NextPc(pc)
           /\ (pc = "sweep" /\ pc' = "render") =>
                screen' = SweepAngle(screen, temp_screen, current_angle)
           /\ IF pc = "render"
              THEN current_angle' = (current_angle + 1) % NumAngles
              ELSE current_angle' = current_angle ]_vars
    /\ []<>(pc = "render" /\ current_angle = 0)
    /\ []<>(pc = "render" /\ current_angle = NumAngles - 1)

\* the last angle of a rotation has been swept in an iteration whose fetch failed
C4_Witness ==
    /\ pc = "render"
    /\ fetched.ret = -1
    /\ current_angle = NumAngles - 1
    /\ steps = NumAngles

\* C5: when the aircraft fetch fails, both channels of pending stay as they
\* were before the attempt and the loop goes on to the sweep step; the failed
\* attempt sets the interval timer, and an attempt is made only when at least
\* 10 s have passed since the previous one.
C5_FetchFailure ==
    [][ /\ (pc = "aircraft" /\ fetched'.ret = -1) =>
              /\ temp_screen' = temp_screen
              /\ last_fetch_time' = current_time
              /\ pc' = "sweep"
        /\ (pc = "aircraft" /\ fetched'.ret # NoFetch.ret) =>
              current_time - last_fetch_time >= 10 ]_vars

\* a later fetch has failed: pending still holds the aircraft drawn before it
C5_Witness ==
    /\ pc = "sweep"
    /\ fetched.ret = -1
    /\ last_fetch_time = current_time
    /\ \E c \in Cells : temp_screen.data[c[1]][c[2]] = "X"

\* the glyphs an aircraft may put on the canvas, as (row, column, character):
\* the marker at column 2x, the slash one row up at column 2(x+1), and the four
\* label rows from row y-5 down, left-aligned at column 2(x+1)
GlyphsOf(matrix, ac) ==
    LET p == latlon_to_screen(ac.latitude, ac.longitude, matrix.width, matrix.height)
        lines == InfoLines(ac.callsign, altitude_ft_of(ac), speed_kts_of(ac), ac.distance)
    IN  { << p.screen_y, p.screen_x * 2, "X" >>,
          << p.screen_y - 1, (p.screen_x + 1) * 2, "/" >> }
        \cup UNION { { << p.screen_y - 6 + k, (p.screen_x + 1) * 2 + i - 1, lines[k][i] >> :
                          i \in 1 .. Len(lines[k]) } : k \in 1 .. 4 }

IsTitleCell(count, y, x) == y = 0 /\ x < Len(TitleChars(count))

IsMarkerCell(matrix, y, x) == y = matrix.height \div 2 /\ x = (matrix.width \div 4) * 2

\* The symbol channel holds the title on row 0, the centre marker or a glyph
\* over it, and otherwise only blanks and glyphs of the aircraft list[1..count].
SymbolsFromBatch(matrix, list, count) ==
    LET glyphs == UNION { GlyphsOf(matrix, list[i]) : i \in 1 .. count }
    IN  \A y \in Rows(matrix), x \in Cols(matrix) :
           LET ch == matrix.data[y][x]
           IN  \/ << y, x, ch >> \in glyphs
               \/ IsTitleCell(count, y, x) /\ ch = TitleChars(count)[x + 1]
               \/ IsMarkerCell(matrix, y, x) /\ ch = "+"
               \/ /\ ch = " "
                  /\ ~IsTitleCell(count, y, x)
                  /\ ~IsMarkerCell(matrix, y, x)

\* Outside the title row and the centre marker, every symbol is a glyph of an
\* aircraft of list[1..count].
OnlyBatchSymbols(matrix, list, count) ==
    LET glyphs == UNION { GlyphsOf(matrix, list[i]) : i \in 1 .. count }
    IN  \A y \in Rows(matrix), x \in Cols(matrix) :
           LET ch == matrix.data[y][x]
           IN  (ch # " " /\ y # 0 /\ ~(IsMarkerCell(matrix, y, x) /\ ch = "+"))
               => << y, x, ch >> \in glyphs

\* C6 (as amended): on every aircraft-refresh cycle whose fetch succeeds the
\* symbol channel of pending is fully rewritten: blank everywhere but for the
\* title, the centre marker and glyphs of the aircraft of this batch, so no
\* symbol of an earlier batch survives; the aircraft refresh leaves the weather
\* channel of pending unchanged, and the weather refresh the symbol channel.
C6_SymbolsRewritten ==
    [][ /\ (pc = "aircraft" /\ fetched'.ret = 0) =>
              SymbolsFromBatch(temp_screen', fetched'.list, fetched'.count)
        /\ (pc = "aircraft") => temp_screen'.weather = temp_screen.weather
        /\ (pc = "weather") => temp_screen'.data = temp_screen.data ]_vars

\* C6 as claimed: the same, and after every aircraft-refresh cycle, the fetch
\* having succeeded or not, no symbol of an earlier batch is left in pending
\* (a failed fetch brings no aircraft).
C6_Original ==
    [][ /\ (pc = "aircraft" /\ fetched'.ret = 0) =>
              SymbolsFromBatch(temp_screen', fetched'.list, fetched'.count)
        /\ (pc = "aircraft" /\ fetched'.ret \in {0, -1}) =>
              OnlyBatchSymbols(temp_screen', fetched'.list, fetched'.count)
        /\ (pc = "aircraft") => temp_screen'.weather = temp_screen.weather
        /\ (pc = "weather") => temp_screen'.data = temp_screen.data ]_vars

\* a batch has just been drawn over weather, and the marker of the batch
\* before it, still shown by visible, is gone from pending
C6_Witness ==
    /\ pc = "sweep"
    /\ fetched.ret = 0
    /\ fetched.count >= 1
    /\ \E c \in Cells : temp_screen.data[c[1]][c[2]] = "X"
    /\ \E c \in Cells :
          /\ screen.data[c[1]][c[2]] = "X"
          /\ temp_screen.data[c[1]][c[2]] = " "
          /\ temp_screen.weather[c[1]][c[2]] > WEATHER_NONE

SetMax(S) == CHOOSE m \in S : \A k \in S : m >= k

\* the intensity one generated cell proposes for canvas cell (x, y); 0 outside it
Candidate(matrix, rnd, x, y) ==
    LET cell == WeatherCellOf(matrix, rnd)
        q == Dist4(cell, x, y)
    IN  IF q < 4 * cell.radius * cell.radius
        THEN CellIntensity(q, cell.radius, cell.intensity)
        ELSE 0

\* C7: no step of the loop lowers the weather intensity of a cell of pending,
\* and a weather-refresh cycle leaves in every cell the maximum of the cell's
\* previous value and the intensities the generated cells propose for it.
C7_WeatherMonotonic ==
    [][ /\ \A y \in Rows(temp_screen), x \in Cols(temp_screen) :
              temp_screen'.weather[y][x] >= temp_screen.weather[y][x]
        /\ (pc = "weather" /\ last_weather_fetch' # last_weather_fetch) =>
              \E rnds \in WeatherDraws :
                 \A y \in Rows(temp_screen), x \in Cols(temp_screen) :
                    temp_screen'.weather[y][x] =
                       SetMax({temp_screen.weather[y][x]} \cup
                              { Candidate(temp_screen, rnds[i], x, y) :
                                   i \in 1 .. Len(rnds) }) ]_vars

\* the second weather refresh has run: one cell was raised above the value
\* visible still shows, another kept its value
C7_Witness ==
    /\ pc = "aircraft"
    /\ last_weather_fetch = current_time
    /\ current_time > StartTime
    /\ \E c \in Cells :
          /\ screen.weather[c[1]][c[2]] > WEATHER_NONE
          /\ screen.weather[c[1]][c[2]] < temp_screen.weather[c[1]][c[2]]
    /\ \E c \in Cells :
          /\ swept[c].hit
          /\ screen.weather[c[1]][c[2]] > WEATHER_NONE
          /\ screen.weather[c[1]][c[2]] = temp_screen.weather[c[1]][c[2]]

\* C8: the weather intensity of every cell of pending and of visible is an
\* integer in 0..6.
C8_IntensityRange ==
    \A c \in Cells :
       /\ screen.weather[c[1]][c[2]] \in WEATHER_NONE .. WEATHER_EXTREME
       /\ temp_screen.weather[c[1]][c[2]] \in WEATHER_NONE .. WEATHER_EXTREME

\* the strongest cell the generator makes is on both canvases, beside weaker ones
C8_Witness ==
    /\ \E c \in Cells : screen.weather[c[1]][c[2]] = 5
    /\ \E c \in Cells : temp_screen.weather[c[1]][c[2]] = 5
    /\ \E c \in Cells : temp_screen.weather[c[1]][c[2]] \in 1 .. 4

\* C9: whatever the latitude and longitude, the projected column lies in
\* [0, width/2) and the projected row in [6, height).
C9_ProjectionClamped ==
    geo.called =>
       /\ 0 <= geo.screen_x /\ geo.screen_x < temp_screen.width \div 2
       /\ 6 <= geo.screen_y /\ geo.screen_y < temp_screen.height

\* a position far to the north-west was projected and clamped on both axes
C9_Witness ==
    /\ geo.called
    /\ geo.lat >= 40 /\ geo.lon <= -60
    /\ geo.screen_x = 0
    /\ geo.screen_y = 6

\* altitude * 3.28084 > 1800 and velocity * 1.94384 > 60, without rounding
\* (altitude in decimetres, velocity in decimetres per second)
AboveThresholds(ac) ==
    /\ ac.altitude * 328084 > 1800 * 1000000
    /\ ac.velocity * 194384 > 60 * 1000000

\* C10: after an aircraft refresh, every symbol of pending other than the
\* title and the centre marker is a glyph of a record of the batch whose
\* altitude is above 1800 ft and whose speed is above 60 kt: a record with
\* altitude <= 1800 ft or speed <= 60 kt has written nothing.
C10_DisplayFilter ==
    (pc = "sweep" /\ fetched.ret = 0) =>
       \A y \in Rows(temp_screen), x \in Cols(temp_screen) :
          LET ch == temp_screen.data[y][x]
          IN  ( /\ ch # " "
                /\ y # 0
                /\ ~(IsMarkerCell(temp_screen, y, x) /\ ch = "+") )
              => \E i \in 1 .. fetched.count :
                    /\ AboveThresholds(fetched.list[i])
                    /\ << y, x, ch >> \in GlyphsOf(temp_screen, fetched.list[i])

\* a batch held a record at 1800 ft and 61 kt, which drew no marker, beside a
\* record above both thresholds, which did
C10_Witness ==
    /\ pc = "sweep"
    /\ fetched.ret = 0
    /\ \E i \in 1 .. fetched.count :
          LET ac == fetched.list[i]
              p == latlon_to_screen(ac.latitude, ac.longitude,
                                    temp_screen.width, temp_screen.height)
          IN  /\ altitude_ft_of(ac) = 1800
              /\ speed_kts_of(ac) = 61
              /\ temp_screen.data[p.screen_y][p.screen_x * 2] = " "
    /\ \E i \in 1 .. fetched.count :
          LET ac == fetched.list[i]
              p == latlon_to_screen(ac.latitude, ac.longitude,
                                    temp_screen.width, temp_screen.height)
          IN  /\ AboveThresholds(ac)
              /\ temp_screen.data[p.screen_y][p.screen_x * 2] = "X"

\* a record with its callsign, latitude, longitude and altitude present
WellFormed(state) ==
    /\ state.callsign_json.type = "string"
    /\ state.lat_json.type = "number"
    /\ state.lon_json.type = "number"
    /\ state.altitude_json.type = "number"

WellFormedInRange(state) ==
    /\ WellFormed(state)
    /\ calculate_distance(state.lat_json.value, state.lon_json.value) <= RANGE_NM * 1000

\* C11: decoding a batch skips every record missing callsign, latitude,
\* longitude or altitude and discards every record farther than rangeNm, and
\* goes on with the rest: the first count entries of the list are exactly the
\* well-formed records within rangeNm, in their order in the batch, and count
\* is their number.
C11_DecodeBatch ==
    (decode.called /\ decode.response.kind = "ok") =>
       LET kept == SelectSeq(decode.response.states, WellFormedInRange)
       IN  /\ decode.ret = 0
           /\ decode.count = Len(kept)
           /\ Len(decode.list) >= decode.count
           /\ \A i \in 1 .. Len(kept) :
                 /\ decode.list[i].latitude = kept[i].lat_json.value
                 /\ decode.list[i].longitude = kept[i].lon_json.value
                 /\ decode.list[i].altitude = kept[i].altitude_json.value
                 /\ decode.list[i].callsign = TrimTrailing(kept[i].callsign_json.value)
                 /\ decode.list[i].distance <= RANGE_NM * 1000

\* a batch of a malformed record, a record out of range and a record in range
\* was decoded to the one record in range
C11_Witness ==
    /\ decode.called
    /\ decode.response.kind = "ok"
    /\ Len(decode.response.states) = 3
    /\ ~WellFormed(decode.response.states[1])
    /\ WellFormed(decode.response.states[2])
    /\ ~WellFormedInRange(decode.response.states[2])
    /\ WellFormedInRange(decode.response.states[3])
    /\ decode.count = 1
    /\ decode.list[1].latitude = decode.response.states[3].lat_json.value

\* the character the label block puts at grid cell (row, col), or "" if none:
\* row k of the block is on row y - 5 + k - 1, from column 2(x + 1) rightwards
LabelCharAt(x, y, lines, row, col) ==
    LET k == row - (y - 5) + 1
        i == col - 2 * (x + 1) + 1
    IN  IF k \in 1 .. 4 /\ i >= 1 /\ i <= Len(lines[k]) THEN lines[k][i] ELSE ""

\* C12: a label block anchored at (x, y) writes nothing when y - 5 < 0;
\* otherwise its four rows go to rows y-5 .. y-2 from column 2(x+1), each
\* character only if its column is below width, and every other cell keeps
\* its content.  Stated for the calls whose writes all stay inside the canvas.
C12_LabelBlock ==
    (draw.called /\ draw.op = "info" /\ ~draw.fault) =>
       /\ pc = "draw"
       /\ temp_screen.weather = DrawCanvas.weather
       /\ IF draw.y - 5 < 0
          THEN temp_screen.data = DrawCanvas.data
          ELSE \A row \in Rows(temp_screen), col \in Cols(temp_screen) :
                  LET ch == LabelCharAt(draw.x, draw.y, DrawLines, row, col)
                  IN  temp_screen.data[row][col] =
                         IF ch # "" /\ col < temp_screen.width THEN ch
                         ELSE DrawCanvas.data[row][col]

\* a label block was written whose rows are cut at the right edge: the
\* altitude row has its first characters in the last columns and no more
C12_Witness ==
    /\ draw.called /\ draw.op = "info" /\ ~draw.fault
    /\ draw.y - 5 >= 1
    /\ 2 * (draw.x + 1) = temp_screen.width - 2
    /\ temp_screen.data[draw.y - 4][temp_screen.width - 2] = "A"
    /\ temp_screen.data[draw.y - 4][temp_screen.width - 1] = "l"
    /\ temp_screen.data[draw.y - 2][temp_screen.width - 1] = "s"

\* C13 (as claimed): whatever the coordinates given to display_symbol,
\* display_slash or display_info, the call writes only cells of the grid,
\* drops every other write leaving the rest of the canvas as it was, and does
\* not fail.
C13_Original ==
    draw.called =>
       /\ ~draw.fault
       /\ pc = "draw"
       /\ \A row \in Rows(temp_screen), col \in Cols(temp_screen) :
             \/ temp_screen.data[row][col] = DrawCanvas.data[row][col]
             \/ /\ draw.op = "symbol"
                /\ row = draw.y /\ col = 2 * draw.x
             \/ /\ draw.op = "slash"
                /\ row = draw.y - 1 /\ col = 2 * (draw.x + 1)
             \/ /\ draw.op = "info"
                /\ LabelCharAt(draw.x, draw.y, DrawLines, row, col) # ""

WeatherGlyphs == {".", ":", "U+2591", "U+2592", "U+2593", "U+2588"}

\* C14: the renderer prints, for every cell of visible, the symbol if the
\* symbol is not blank, otherwise the weather glyph of the intensity if the
\* intensity is above 0, otherwise a blank; it prints from visible alone and
\* changes neither channel of any cell of either canvas.
C14_RenderPriority ==
    [][ (pc = "render") =>
          /\ screen' = screen
          /\ temp_screen' = temp_screen
          /\ \A i \in Rows(screen), j \in Cols(screen) :
                LET symbol == screen.data[i][j]
                    intensity == screen.weather[i][j]
                    text == frame'[i][j].text
                IN  IF symbol # " " THEN text = symbol
                    ELSE IF intensity > 0
                    THEN /\ text \in WeatherGlyphs
                         /\ text = get_weather_char(intensity)
                    ELSE text = " " ]_vars

\* a frame was printed with a symbol over weather, weather alone and a blank
C14_Witness ==
    /\ pc = "time"
    /\ \E c \in Cells :
          /\ screen.data[c[1]][c[2]] = "X"
          /\ screen.weather[c[1]][c[2]] > WEATHER_NONE
          /\ frame[c[1]][c[2]].text = "X"
    /\ \E c \in Cells :
          /\ screen.data[c[1]][c[2]] = " "
          /\ screen.weather[c[1]][c[2]] = 3
          /\ frame[c[1]][c[2]].text = "U+2591"
          /\ frame[c[1]][c[2]].color = "COLOR_GREEN"
    /\ \E c \in Cells :
          /\ screen.data[c[1]][c[2]] = " "
          /\ screen.weather[c[1]][c[2]] = WEATHER_NONE
          /\ swept[c].hit
          /\ frame[c[1]][c[2]].text = " "

Abs(v) == IF v >= 0 THEN v ELSE -v

\* the reference point was projected: it is on grid column width/4 and row
\* height/2, the cell of the centre marker, within one unit of the sweep centre
ReferenceAtCenter ==
    /\ geo.screen_x = temp_screen.width \div 4
    /\ geo.screen_y = temp_screen.height \div 2
    /\ (pc = "marked") => temp_screen.data[geo.screen_y][2 * geo.screen_x] = "+"
    /\ Abs(2 * geo.screen_x - temp_screen.width \div 2) <= 1
    /\ Abs(geo.screen_y - temp_screen.height \div 2) <= 1

IsBlankCanvas(matrix, n) ==
    /\ matrix.height = n
    /\ matrix.width = 2 * n
    /\ DOMAIN matrix.data = 0 .. n - 1
    /\ DOMAIN matrix.weather = 0 .. n - 1
    /\ \A i \in 0 .. n - 1 :
          /\ DOMAIN matrix.data[i] = 0 .. 2 * n - 1
          /\ DOMAIN matrix.weather[i] = 0 .. 2 * n - 1
          /\ \A j \in 0 .. 2 * n - 1 :
                matrix.data[i][j] = " " /\ matrix.weather[i][j] = 0

\* C16: a canvas allocated with size n has height n and width 2n and all its
\* cells blank with intensity 0; and in every state of the loop pending and
\* visible have the same dimensions, with width = 2 * height.
C16_CanvasShape ==
    /\ \A n \in 1 .. MaxSize : IsBlankCanvas(create_square_matrix(n), n)
    /\ screen.width = 2 * screen.height
    /\ temp_screen.width = 2 * temp_screen.height
    /\ screen.height = temp_screen.height
    /\ screen.width = temp_screen.width
    /\ DOMAIN screen.data = 0 .. screen.height - 1
    /\ DOMAIN temp_screen.data = 0 .. temp_screen.height - 1
    /\ \A i \in 0 .. screen.height - 1 :
          /\ DOMAIN screen.data[i] = 0 .. screen.width - 1
          /\ DOMAIN screen.weather[i] = 0 .. screen.width - 1
          /\ DOMAIN temp_screen.data[i] = 0 .. temp_screen.width - 1
          /\ DOMAIN temp_screen.weather[i] = 0 .. temp_screen.width - 1
    /\ (pc = "time" /\ last_fetch_time = 0) =>
          IsBlankCanvas(screen, N) /\ IsBlankCanvas(temp_screen, N)

\* both refreshes and a full rotation of the sweep have written the canvases
C16_Witness ==
    /\ steps = NumAngles
    /\ screen.width = 2 * N
    /\ temp_screen.width = 2 * N
    /\ \E c \in Cells :
          screen.data[c[1]][c[2]] = "X" /\ screen.weather[c[1]][c[2]] > 0
    /\ \E c \in Cells :
          temp_screen.data[c[1]][c[2]] = "X" /\ temp_screen.weather[c[1]][c[2]] > 0

\* C17: when pending has not changed during the last numAngles sweep steps
\* (one full rotation since the refresh that changed it last), every cell hit
\* by some (angle, radius) pair has in visible the symbol and the intensity it
\* has in pending.
C17_RefreshLag ==
    quiet = NumAngles =>
       \A c \in HitCells : CellOf(screen, c) = CellOf(temp_screen, c)

\* a full rotation has passed since a second batch replaced the first: visible
\* shows the second batch over the weather, as pending does
C17_Witness ==
    /\ quiet = NumAngles
    /\ current_time > StartTime
    /\ fetched.ret # 0
    /\ \E c \in HitCells :
          /\ screen.data[c[1]][c[2]] = "X"
          /\ screen.weather[c[1]][c[2]] > WEATHER_NONE
    /\ \A c \in HitCells : CellOf(screen, c) = CellOf(temp_screen, c)

\* the four corner cells, as (row, column)
Corners == { << 0, 0 >>, << 0, N * 2 - 1 >>, << N - 1, 0 >>, << N - 1, N * 2 - 1 >> }

CenterSquare == center_x * center_x + center_y * center_y

\* C18 (as amended): maxRadius = floor(sqrt(centerX^2 + centerY^2)) + 1 with
\* centerX = width/2 and centerY = height/2, which is beyond the distance from
\* the centre to each corner cell; a cell, corner or not, is written only if
\* the ray of some angle lands on it, and a cell no ray lands on keeps in
\* visible the content it was allocated with.
C18_MaxRadius ==
    /\ center_x = screen.width \div 2
    /\ center_y = screen.height \div 2
    /\ (max_radius - 1) * (max_radius - 1) <= CenterSquare
    /\ CenterSquare < max_radius * max_radius
    /\ \A c \in Corners :
          (c[2] - center_x) * (c[2] - center_x) + (c[1] - center_y) * (c[1] - center_y)
             < max_radius * max_radius
    /\ \A c \in Cells \ HitCells : CellOf(screen, c) = << " ", WEATHER_NONE >>
    /\ (steps = NumAngles) => \A c \in HitCells : swept[c].hit

\* C18 as claimed: maxRadius = ceil(sqrt(centerX^2 + centerY^2)) + 1, and after
\* a full rotation each of the four corner cells has been written.
C18_Original ==
    /\ center_x = screen.width \div 2
    /\ center_y = screen.height \div 2
    /\ max_radius = CeilSqrt(CenterSquare) + 1
    /\ (steps = NumAngles) => \A c \in Corners : swept[c].hit

\* after a full rotation one corner has been written, and another, where
\* pending holds the first letter of the title, is still blank in visible
C18_Witness ==
    /\ steps = NumAngles
    /\ \E c \in Corners : swept[c].hit
    /\ << 0, 0 >> \notin HitCells
    /\ temp_screen.data[0][0] = "L"
    /\ screen.data[0][0] = " "

\* radii r1 < r2 of one angle whose writes go to the same cell of the grid
Aliased(angle, r1, r2) ==
    /\ r1 < r2
    /\ TargetCell(angle, r1) = TargetCell(angle, r2)
    /\ TargetCell(angle, r1) \in Cells

\* the sweep step about to run has two aliased radii whose writes carry
\* different values
AliasedDifferent ==
    /\ pc = "sweep"
    /\ \E r1, r2 \in 0 .. max_radius :
          /\ Aliased(current_angle, r1, r2)
          /\ CellOf(temp_screen, SourceCell(current_angle, r1))
                # CellOf(temp_screen, SourceCell(current_angle, r2))

\* in a sweep step, a cell two radii alias to ends with the value written at
\* the larger one
LastWriteWins ==
    (pc = "sweep" /\ pc' = "render") =>
       \A r1, r2 \in 0 .. max_radius :
          Aliased(current_angle, r1, r2) =>
             CellOf(screen', TargetCell(current_angle, r2))
                = CellOf(temp_screen, SourceCell(current_angle, r2))

C20_RefreshSchedule ==
    [][ /\ (pc = "weather") =>
              /\ (last_weather_fetch' # last_weather_fetch)
                    <=> (current_time - last_weather_fetch >= 60)
              /\ (last_weather_fetch' # last_weather_fetch)
                    => last_weather_fetch' = current_time
              /\ (current_time - last_weather_fetch < 60) => temp_screen' = temp_screen
              /\ last_fetch_time' = last_fetch_time
        /\ (pc = "aircraft") =>
              /\ (fetched'.ret \in {0, -1}) <=> (current_time - last_fetch_time >= 10)
              /\ (fetched'.ret \in {0, -1}) => last_fetch_time' = current_time
              /\ (current_time - last_fetch_time < 10) =>
                    /\ temp_screen' = temp_screen
                    /\ last_fetch_time' = last_fetch_time
              /\ last_weather_fetch' = last_weather_fetch
        /\ (pc \notin {"weather", "aircraft"}) =>
              /\ temp_screen' = temp_screen
              /\ last_fetch_time' = last_fetch_time
              /\ last_weather_fetch' = last_weather_fetch
        /\ (pc' # pc) => pc' = NextPc(pc)
        /\ (pc # "sweep") => screen' = screen
        /\ (pc = "sweep" /\ steps = 0) =>
              /\ last_weather_fetch = current_time
              /\ last_fetch_time = current_time
              /\ fetched.ret \in {0, -1} ]_vars

\* exactly 60 s after the first iteration both refreshes were due again and
\* have run, the aircraft fetch with success, before the sweep step
C20_Witness ==
    /\ pc = "sweep"
    /\ steps > 0
    /\ current_time = StartTime + 60
    /\ last_weather_fetch = current_time
    /\ last_fetch_time = current_time
    /\ fetched.ret = 0

\* the cell at the sweep centre (width/2, height/2), as (row, column)
CenterCell == << center_y, center_x >>

\* C21: radius 0 lands on the sweep centre at every angle, so after every
\* sweep step, and until pending is next refreshed, the centre cell of visible
\* has the symbol and the intensity of the centre cell of pending: a change of
\* pending there is shown by the next step.
C21_CenterFresh ==
    /\ \A angle \in 0 .. NumAngles - 1 : TargetCell(angle, 0) = CenterCell
    /\ (pc \in {"render", "time"} /\ steps > 0) =>
          CellOf(screen, CenterCell) = CellOf(temp_screen, CenterCell)

\* the batch fetched in this iteration is already shown at the centre after
\* one sweep step, while a cell elsewhere still shows what it was swept with
C21_Witness ==
    /\ pc = "render"
    /\ fetched.ret = 0
    /\ steps = NumAngles
    /\ CellOf(screen, CenterCell) = CellOf(temp_screen, CenterCell)
    /\ CellOf(screen, CenterCell) # << " ", WEATHER_NONE >>
    /\ \E c \in HitCells : CellOf(screen, c) # CellOf(temp_screen, c)

\* C22: the loop never clears the weather channel of pending, so no step
\* lowers the intensity of a cell of pending; in every state each cell's
\* intensity in visible is at most its intensity in pending; and so no step
\* lowers the intensity of a cell of visible either.
C22_VisibleWeatherMonotonic ==
    /\ [](\A c \in Cells :
            screen.weather[c[1]][c[2]] <= temp_screen.weather[c[1]][c[2]])
    /\ [][ \A c \in Cells :
              /\ temp_screen'.weather[c[1]][c[2]] >= temp_screen.weather[c[1]][c[2]]
              /\ screen'.weather[c[1]][c[2]] >= screen.weather[c[1]][c[2]] ]_vars

\* after the second weather refresh and an aircraft redraw, the sweep has just
\* raised a cell of visible to the new intensity of pending, while another
\* cell still shows the lower intensity of the first refresh
C22_Witness ==
    /\ pc = "render"
    /\ current_time = StartTime + 60
    /\ last_weather_fetch = current_time
    /\ fetched.ret = 0
    /\ \E c \in RayCells(current_angle) :
          /\ screen.weather[c[1]][c[2]] = temp_screen.weather[c[1]][c[2]]
          /\ screen.weather[c[1]][c[2]] > 1
    /\ \E c \in Cells \ RayCells(current_angle) :
          /\ screen.weather[c[1]][c[2]] > WEATHER_NONE
          /\ screen.weather[c[1]][c[2]] < temp_screen.weather[c[1]][c[2]]

====
